---------------------------- MODULE Spec2Model ----------------------------
(***************************************************************************)
(* Fitness Tracker API (src/main.py): the three document collections, the  *)
(* create / list handlers and the insights aggregation, as a state machine.*)
(*                                                                         *)
(* Encoding.  Calendar dates are day ordinals (integers); timedelta(days=n)*)
(* is integer subtraction.  Floats that the handlers add, subtract and     *)
(* compare are integer valued in the inputs drawn here, so integer         *)
(* arithmetic is exact for them.  An optional value is a sequence of length*)
(* 0 (None) or 1; a required field that the request body leaves out is     *)
(* None in the request.  A Python dict is a function whose DOMAIN is the   *)
(* set of keys.  str(date), date.isoformat() and str(ObjectId) are the     *)
(* injective conversion ToString.                                          *)
(***************************************************************************)
EXTENDS Integers, Sequences, FiniteSets, TLC

VARIABLES
    profiles,   \* collection "userprofile": documents in insertion order
    workouts,   \* collection "workout"
    bodycomps,  \* collection "bodycomposition"
    today,      \* the value date.today() returns
    resp        \* the last request and its response

vars == <<profiles, workouts, bodycomps, today, resp>>

store == <<profiles, workouts, bodycomps>>

----------------------------------------------------------------------------
\* Bounds of the model.

\* date.today() in the initial state
Today0 == 3
\* how many times midnight passes
MaxAdvance == 1
\* documents in the store, all collections together (specification Spec)
MaxDocs == 2
\* workouts in the store (specification SpecWorkout)
MaxWorkouts == 3
\* body-composition entries in the store (specification SpecBody)
MaxBody == 3
\* workouts in the store (specification SpecFreq)
MaxFreqWorkouts == 8

\* Program constants: the declared ranges and defaults of the query parameters.
WorkoutLimitDefault == 50
WorkoutLimitMax == 500
BodyLimitDefault == 30
BodyLimitMax == 365
DaysDefault == 30
DaysMax == 365
BodyFatMax == 100
MinSessionsFloor == 3
DaysPerSessionDivisor == 4
ShortSessionMinutes == 30

----------------------------------------------------------------------------
\* Optional values.

None == <<>>

Some(x) == <<x>>

IsNone(o) == o = <<>>

Val(o) == o[1]

\* Python's `x or default` on an optional string: None and "" are falsy.
OrDefault(o, dflt) == IF IsNone(o) \/ Val(o) = "" THEN dflt ELSE Val(o)

DateStr(d) == ToString(d)

Max(a, b) == IF a >= b THEN a ELSE b

RECURSIVE SumSeq(_)
SumSeq(s) == IF s = <<>> THEN 0 ELSE Head(s) + SumSeq(Tail(s))

AllDocs == profiles \o workouts \o bodycomps

----------------------------------------------------------------------------
\* Validation layer: the pydantic models and the Query(...) ranges.

\* Optional[float] = Field(None, gt=0)
OptGt0(o) == IsNone(o) \/ Val(o) > 0

ProfileIn(p) ==
    /\ ~IsNone(p.name)
    /\ ~IsNone(p.email)
    /\ OptGt0(p.height_cm)

\* WorkoutIn with duration_min declared without gt=0.
WorkoutIn_NoDurationCheck(w) ==
    /\ ~IsNone(w.user_email)
    /\ ~IsNone(w.date)
    /\ ~IsNone(w.type)
    /\ ~IsNone(w.duration_min)
    /\ (IsNone(w.calories) \/ Val(w.calories) >= 0)

WorkoutIn(w) ==
    /\ ~IsNone(w.user_email)
    /\ ~IsNone(w.date)
    /\ ~IsNone(w.type)
    /\ ~IsNone(w.duration_min) /\ Val(w.duration_min) > 0
    /\ (IsNone(w.calories) \/ Val(w.calories) >= 0)

BodyCompIn(m) ==
    /\ ~IsNone(m.user_email)
    /\ ~IsNone(m.date)
    /\ OptGt0(m.weight_kg)
    /\ (IsNone(m.body_fat_pct)
          \/ (Val(m.body_fat_pct) >= 0 /\ Val(m.body_fat_pct) <= BodyFatMax))
    /\ OptGt0(m.waist_cm)
    /\ OptGt0(m.hips_cm)
    /\ OptGt0(m.chest_cm)

\* limit: Optional[int] = Query(50, ge=1, le=500)
WorkoutLimitOk(limit) == limit >= 1 /\ limit <= WorkoutLimitMax

\* limit: int = Query(30, ge=1, le=365)
BodyLimitOk(limit) == limit >= 1 /\ limit <= BodyLimitMax

\* days: int = Query(30, ge=1, le=365)
DaysOk(days) == days >= 1 /\ days <= DaysMax

----------------------------------------------------------------------------
\* Document store adapter (module database).

\* The identifier the store assigns to the next inserted document.
NextId == Len(AllDocs) + 1

RECURSIVE MaxTs(_)
MaxTs(s) == IF s = <<>> THEN 0 ELSE Max(Head(s).created_at, MaxTs(Tail(s)))

\* The store's clock never runs backwards: an insert is stamped with the
\* latest stamp handed out so far, or a later one.
LastTs == MaxTs(AllDocs)

NowChoices == {LastTs, LastTs + 1}

\* insert_one: the document, its identifier and its creation timestamp.
create_document(coll, data, ts) ==
    Append(coll, data @@ [_id |-> NextId, created_at |-> ts])

RECURSIVE Take(_, _)
Take(s, n) == IF n <= 0 \/ s = <<>> THEN <<>> ELSE <<Head(s)>> \o Take(Tail(s), n - 1)

\* A filter is a dict: field name -> value (equality), and for the field
\* "date" a range dict with the keys "$gte" and "$lte", each optional.
Matches(d, q) ==
    \A k \in DOMAIN q :
        IF k = "date"
        THEN /\ ("$gte" \in DOMAIN q[k] => d.date >= q[k]["$gte"])
             /\ ("$lte" \in DOMAIN q[k] => d.date <= q[k]["$lte"])
        ELSE d[k] = q[k]

\* find(filter_dict), in the store's insertion order, cut to `limit`
\* documents when a limit is given (None: unbounded).
get_documents(coll, q, limit) ==
    LET found == SelectSeq(coll, LAMBDA d : Matches(d, q))
    IN  IF IsNone(limit) THEN found ELSE Take(found, Val(limit))

----------------------------------------------------------------------------
\* Utils.

\* _serialize of a workout document
SerializeWorkout(d) ==
    [id |-> ToString(d._id), user_email |-> d.user_email, date |-> DateStr(d.date),
     type |-> d.type, duration_min |-> d.duration_min, intensity |-> d.intensity,
     notes |-> d.notes, calories |-> d.calories, exercises |-> d.exercises,
     created_at |-> ToString(d.created_at)]

\* _serialize of a body-composition document
SerializeBodyComp(d) ==
    [id |-> ToString(d._id), user_email |-> d.user_email, date |-> DateStr(d.date),
     weight_kg |-> d.weight_kg, body_fat_pct |-> d.body_fat_pct,
     waist_cm |-> d.waist_cm, hips_cm |-> d.hips_cm, chest_cm |-> d.chest_cm,
     created_at |-> ToString(d.created_at)]

\* _serialize of a profile document
SerializeProfile(d) ==
    [id |-> ToString(d._id), name |-> d.name, email |-> d.email,
     height_cm |-> d.height_cm, goal |-> d.goal,
     created_at |-> ToString(d.created_at)]

\* The sort key (d.get("date"), d.get("created_at")), compared as Python
\* compares tuples.
KeyLess(a, b) ==
    \/ a.date < b.date
    \/ (a.date = b.date /\ a.created_at < b.created_at)

KeyEq(a, b) == a.date = b.date /\ a.created_at = b.created_at

\* list.sort is stable, also with reverse=True: documents with equal keys
\* keep the order they had.  Insertion of x behind every element that does
\* not have to follow it.
RECURSIVE InsertDesc(_, _)
InsertDesc(s, x) ==
    IF s = <<>> THEN <<x>>
    ELSE IF KeyLess(Head(s), x) THEN <<x>> \o s
    ELSE <<Head(s)>> \o InsertDesc(Tail(s), x)

RECURSIVE InsertAsc(_, _)
InsertAsc(s, x) ==
    IF s = <<>> THEN <<x>>
    ELSE IF KeyLess(x, Head(s)) THEN <<x>> \o s
    ELSE <<Head(s)>> \o InsertAsc(Tail(s), x)

RECURSIVE SortAsc(_)
SortAsc(s) ==
    IF s = <<>> THEN <<>>
    ELSE InsertAsc(SortAsc(SubSeq(s, 1, Len(s) - 1)), s[Len(s)])

\* The sort without reverse=True.
RECURSIVE SortDesc_Ascending(_)
SortDesc_Ascending(s) ==
    IF s = <<>> THEN <<>>
    ELSE InsertAsc(SortDesc_Ascending(SubSeq(s, 1, Len(s) - 1)), s[Len(s)])

\* docs.sort(key=lambda d: (d.get("date"), d.get("created_at")), reverse=True)
RECURSIVE SortDesc(_)
SortDesc(s) ==
    IF s = <<>> THEN <<>>
    ELSE InsertDesc(SortDesc(SubSeq(s, 1, Len(s) - 1)), s[Len(s)])

Reverse(s) == [i \in 1..Len(s) |-> s[Len(s) + 1 - i]]

----------------------------------------------------------------------------
\* Responses.

Response(op, args, status, body, docs) ==
    [op |-> op, args |-> args, status |-> status, body |-> body, docs |-> docs,
     day |-> today]

\* 422: the request failed validation before the handler ran.
Rejected(op, args) == Response(op, args, 422, "validation error", <<>>)

----------------------------------------------------------------------------
\* Profiles.

\* profile.model_dump()
ProfileDoc(p) ==
    [name |-> Val(p.name), email |-> Val(p.email), height_cm |-> p.height_cm,
     goal |-> p.goal]

\* POST /api/profile
create_profile(p, ts) ==
    IF ProfileIn(p)
    THEN /\ profiles' = create_document(profiles, ProfileDoc(p), ts)
         /\ resp' = Response("create_profile", p, 200, [id |-> ToString(NextId)], <<>>)
         /\ UNCHANGED <<workouts, bodycomps, today>>
    ELSE /\ resp' = Rejected("create_profile", p)
         /\ UNCHANGED <<profiles, workouts, bodycomps, today>>

\* get_profile without the test for an empty result.
GetProfileResponse_Never404(email) ==
    LET docs == get_documents(profiles, [email |-> email], Some(1))
    IN  IF docs = <<>>
        THEN Response("get_profile", [email |-> email], 200, <<>>, docs)
        ELSE Response("get_profile", [email |-> email], 200, SerializeProfile(docs[1]), docs)

GetProfileResponse(email) ==
    LET docs == get_documents(profiles, [email |-> email], Some(1))
    IN  IF docs = <<>>
        THEN Response("get_profile", [email |-> email], 404, "Profile not found", docs)
        ELSE Response("get_profile", [email |-> email], 200, SerializeProfile(docs[1]), docs)

\* GET /api/profile
get_profile(email) ==
    /\ resp' = GetProfileResponse(email)
    /\ UNCHANGED <<profiles, workouts, bodycomps, today>>

----------------------------------------------------------------------------
\* Workouts.

\* workout.model_dump()
WorkoutDoc(w) ==
    [user_email |-> Val(w.user_email), date |-> Val(w.date), type |-> Val(w.type),
     duration_min |-> Val(w.duration_min), intensity |-> w.intensity,
     notes |-> w.notes, calories |-> w.calories, exercises |-> w.exercises]

\* POST /api/workouts
add_workout(w, ts) ==
    IF WorkoutIn(w)
    THEN /\ workouts' = create_document(workouts, WorkoutDoc(w), ts)
         /\ resp' = Response("add_workout", w, 200, [id |-> ToString(NextId)], <<>>)
         /\ UNCHANGED <<profiles, bodycomps, today>>
    ELSE /\ resp' = Rejected("add_workout", w)
         /\ UNCHANGED <<profiles, workouts, bodycomps, today>>

\* rng: the bounds that were given
DateRange(start, end) ==
    [k \in (IF IsNone(start) THEN {} ELSE {"$gte"})
             \cup (IF IsNone(end) THEN {} ELSE {"$lte"})
        |-> IF k = "$gte" THEN Val(start) ELSE Val(end)]

\* The filter without the user_email key.
WorkoutQuery_NoEmail(user_email, start, end) ==
    IF ~IsNone(start) \/ ~IsNone(end)
    THEN [date |-> DateRange(start, end)]
    ELSE [k \in {} |-> k]

\* q = {"user_email": user_email}, and q["date"] = rng if start or end
WorkoutQuery(user_email, start, end) ==
    IF ~IsNone(start) \/ ~IsNone(end)
    THEN [user_email |-> user_email, date |-> DateRange(start, end)]
    ELSE [user_email |-> user_email]

ListWorkoutsArgs(user_email, start, end, limit) ==
    [user_email |-> user_email, start |-> start, end |-> end, limit |-> limit]

ListWorkoutsResponse(user_email, start, end, limit) ==
    LET args == ListWorkoutsArgs(user_email, start, end, limit)
    IN  IF ~WorkoutLimitOk(limit) THEN Rejected("list_workouts", args)
        ELSE LET found == get_documents(workouts, WorkoutQuery(user_email, start, end),
                                        Some(limit))
                 docs == SortDesc(found)
             IN  Response("list_workouts", args, 200,
                          [i \in 1..Len(docs) |-> SerializeWorkout(docs[i])], docs)

\* list_workouts sorting the collection itself instead of a copy.
list_workouts_SortsStore(user_email, start, end, limit) ==
    /\ resp' = ListWorkoutsResponse(user_email, start, end, limit)
    /\ workouts' = SortDesc(workouts)
    /\ UNCHANGED <<profiles, bodycomps, today>>

\* GET /api/workouts
list_workouts(user_email, start, end, limit) ==
    /\ resp' = ListWorkoutsResponse(user_email, start, end, limit)
    /\ UNCHANGED <<profiles, workouts, bodycomps, today>>

----------------------------------------------------------------------------
\* Body composition.

\* measure.model_dump()
BodyCompDoc(m) ==
    [user_email |-> Val(m.user_email), date |-> Val(m.date), weight_kg |-> m.weight_kg,
     body_fat_pct |-> m.body_fat_pct, waist_cm |-> m.waist_cm, hips_cm |-> m.hips_cm,
     chest_cm |-> m.chest_cm]

\* POST /api/bodycomp
add_bodycomp(m, ts) ==
    IF BodyCompIn(m)
    THEN /\ bodycomps' = create_document(bodycomps, BodyCompDoc(m), ts)
         /\ resp' = Response("add_bodycomp", m, 200, [id |-> ToString(NextId)], <<>>)
         /\ UNCHANGED <<profiles, workouts, today>>
    ELSE /\ resp' = Rejected("add_bodycomp", m)
         /\ UNCHANGED <<profiles, workouts, bodycomps, today>>

ListBodycompResponse(user_email, limit) ==
    LET args == [user_email |-> user_email, limit |-> limit]
    IN  IF ~BodyLimitOk(limit) THEN Rejected("list_bodycomp", args)
        ELSE LET found == get_documents(bodycomps, [user_email |-> user_email],
                                        Some(limit))
                 docs == SortDesc(found)
             IN  Response("list_bodycomp", args, 200,
                          [i \in 1..Len(docs) |-> SerializeBodyComp(docs[i])], docs)

\* GET /api/bodycomp
list_bodycomp(user_email, limit) ==
    /\ resp' = ListBodycompResponse(user_email, limit)
    /\ UNCHANGED <<profiles, workouts, bodycomps, today>>

----------------------------------------------------------------------------
\* Insights.

\* str.title() on the workout types that occur
Title(t) ==
    CASE t = "run" -> "Run"
      [] t = "yoga" -> "Yoga"
      [] OTHER -> t

EmptyDict == [k \in {} |-> 0]

RECURSIVE SumOver(_, _)
SumOver(f, S) ==
    IF S = {} THEN 0
    ELSE LET k == CHOOSE x \in S : TRUE IN f[k] + SumOver(f, S \ {k})

RECURSIVE MaxOver(_, _)
MaxOver(f, S) ==
    IF S = {} THEN 0
    ELSE LET k == CHOOSE x \in S : TRUE IN Max(f[k], MaxOver(f, S \ {k}))

\* round(num / den, 1) in tenths.  The quotient is halfway between two
\* tenths only when it is an odd multiple of 1/4 (for den < 20), which a
\* float holds exactly, so round() rounds it half to even.
RoundTenths(num, den) ==
    LET n10 == 10 * num
        q == n10 \div den
        r == n10 % den
    IN  IF 2 * r < den THEN q
        ELSE IF 2 * r > den THEN q + 1
        ELSE IF q % 2 = 0 THEN q ELSE q + 1

\* The window start one day early.
WindowStart_OffByOne(days) == today - days

\* start = today - timedelta(days=days - 1)
WindowStart(days) == today - (days - 1)

\* get_documents("workout", {"user_email": ..., "date": {"$gte": start, "$lte": today}}, None)
WindowWorkouts(user_email, days) ==
    get_documents(workouts,
                  [user_email |-> user_email,
                   date |-> DateRange(Some(WindowStart(days)), Some(today))],
                  None)

\* total_minutes = sum(float(w.get("duration_min", 0) or 0) for w in wdocs)
TotalMinutes(wdocs) == SumSeq([i \in 1..Len(wdocs) |-> wdocs[i].duration_min])

\* days_with = {str(w.get("date")) for w in wdocs}
DaysWith(wdocs) == {DateStr(wdocs[i].date) : i \in 1..Len(wdocs)}

\* while str(d) in days_with: current_streak += 1; d = d - timedelta(days=1)
RECURSIVE StreakFrom(_, _)
StreakFrom(d, days_with) ==
    IF DateStr(d) \in days_with THEN 1 + StreakFrom(d - 1, days_with) ELSE 0

\* The walk started at yesterday.
CurrentStreak_FromYesterday(wdocs) == StreakFrom(today - 1, DaysWith(wdocs))

\* d = today, then the loop
CurrentStreak(wdocs) == StreakFrom(today, DaysWith(wdocs))

\* by_day[ds] = by_day.get(ds, 0) + float(w.get("duration_min", 0) or 0)
RECURSIVE ByDay(_)
ByDay(wdocs) ==
    IF wdocs = <<>> THEN EmptyDict
    ELSE LET prev == ByDay(SubSeq(wdocs, 1, Len(wdocs) - 1))
             w == wdocs[Len(wdocs)]
             ds == DateStr(w.date)
         IN  [k \in DOMAIN prev \cup {ds} |->
                 (IF k \in DOMAIN prev THEN prev[k] ELSE 0)
                 + (IF k = ds THEN w.duration_min ELSE 0)]

\* t = (w.get("type") or "Unknown").title(); types[t] = types.get(t, 0) + 1
RECURSIVE TypeCounts(_)
TypeCounts(wdocs) ==
    IF wdocs = <<>> THEN EmptyDict
    ELSE LET prev == TypeCounts(SubSeq(wdocs, 1, Len(wdocs) - 1))
             w == wdocs[Len(wdocs)]
             t == Title(OrDefault(Some(w.type), "Unknown"))
         IN  [k \in DOMAIN prev \cup {t} |->
                 (IF k \in DOMAIN prev THEN prev[k] ELSE 0)
                 + (IF k = t THEN 1 ELSE 0)]

\* The texts of the suggestions (the dash of "30-45" is an en dash in the
\* source).
FrequencySuggestion == "Increase frequency: aim for 3-4 sessions per week."

DurationSuggestion == "Bump average session length toward 30-45 minutes."

VarietySuggestion == "Balance your routine by mixing different workout types."

\* The test with <= for <.
FrequencyLow_OrEqual(total_sessions, days) ==
    total_sessions <= Max(MinSessionsFloor, days \div DaysPerSessionDivisor)

\* total_sessions < max(3, days // 4)
FrequencyLow(total_sessions, days) ==
    total_sessions < Max(MinSessionsFloor, days \div DaysPerSessionDivisor)

\* The three tests, in the order of the appends.  avg_duration < 30 is
\* total_minutes < 30 * total_sessions; max / total > 0.7 is
\* 10 * max > 7 * total.
Suggestions(total_sessions, total_minutes, types, days) ==
    (IF FrequencyLow(total_sessions, days) THEN <<FrequencySuggestion>> ELSE <<>>)
    \o (IF total_sessions >= 3 /\ total_minutes < ShortSessionMinutes * total_sessions
        THEN <<DurationSuggestion>> ELSE <<>>)
    \o (IF DOMAIN types # {}
           /\ 10 * MaxOver(types, DOMAIN types) > 7 * Max(total_sessions, 1)
        THEN <<VarietySuggestion>> ELSE <<>>)

\* next((b for b in bdocs if b.get("weight_kg") is not None), None)
RECURSIVE FirstWithWeight(_)
FirstWithWeight(bdocs) ==
    IF bdocs = <<>> THEN None
    ELSE IF ~IsNone(Head(bdocs).weight_kg) THEN Some(Head(bdocs))
    ELSE FirstWithWeight(Tail(bdocs))

\* The trend with the newest entry taken as the last one, weight or not.
WeightChange_LastIsNewest(user_email) ==
    LET bdocs == SortAsc(get_documents(bodycomps, [user_email |-> user_email], None))
    IN  IF Len(bdocs) >= 2
        THEN LET first == FirstWithWeight(bdocs)
                 last == bdocs[Len(bdocs)]
             IN  IF ~IsNone(first) /\ ~IsNone(last.weight_kg)
                 THEN Some(Val(last.weight_kg) - Val(Val(first).weight_kg))
                 ELSE None
        ELSE None

\* Body comp trend: the full history, sorted ascending, first and last
\* entry with a weight.
WeightChange(user_email) ==
    LET bdocs == SortAsc(get_documents(bodycomps, [user_email |-> user_email], None))
    IN  IF Len(bdocs) >= 2
        THEN LET first == FirstWithWeight(bdocs)
                 last == FirstWithWeight(Reverse(bdocs))
             IN  IF ~IsNone(first) /\ ~IsNone(last)
                 THEN Some(Val(Val(last).weight_kg) - Val(Val(first).weight_kg))
                 ELSE None
        ELSE None

\* The report.  avg_duration is in tenths (325 is 32.5).
InsightsReport(user_email, days) ==
    LET wdocs == WindowWorkouts(user_email, days)
        total_sessions == Len(wdocs)
        total_minutes == TotalMinutes(wdocs)
        types == TypeCounts(wdocs)
    IN  [totals |-> [sessions |-> total_sessions,
                     minutes |-> total_minutes,
                     avg_duration |-> IF total_sessions = 0 THEN 0
                                      ELSE RoundTenths(total_minutes, total_sessions),
                     streak_days |-> CurrentStreak(wdocs)],
         volume_by_day |-> ByDay(wdocs),
         types |-> types,
         suggestions |-> Suggestions(total_sessions, total_minutes, types, days),
         weight_change |-> WeightChange(user_email)]

InsightsResponse(user_email, days) ==
    LET args == [user_email |-> user_email, days |-> days]
    IN  IF ~DaysOk(days) THEN Rejected("insights", args)
        ELSE Response("insights", args, 200, InsightsReport(user_email, days), <<>>)

\* GET /api/insights
insights(user_email, days) ==
    /\ resp' = InsightsResponse(user_email, days)
    /\ UNCHANGED <<profiles, workouts, bodycomps, today>>

----------------------------------------------------------------------------
\* The environment.

\* Midnight passes: date.today() returns the next day.
AdvanceDay ==
    /\ today < Today0 + MaxAdvance
    /\ today' = today + 1
    /\ UNCHANGED <<profiles, workouts, bodycomps, resp>>

Init ==
    /\ profiles = <<>>
    /\ workouts = <<>>
    /\ bodycomps = <<>>
    /\ today = Today0
    /\ resp = [op |-> "none", args |-> <<>>, status |-> 0, body |-> <<>>,
               docs |-> <<>>, day |-> Today0]

NumDocs == Len(AllDocs)

Emails == {"a@x.com", "b@x.com"}

WorkoutReq(e, d, t, dur, cal) ==
    [user_email |-> e, date |-> d, type |-> t, duration_min |-> dur,
     intensity |-> None, notes |-> None, calories |-> cal, exercises |-> None]

BodyReq(e, d, w, fat, waist) ==
    [user_email |-> e, date |-> d, weight_kg |-> w, body_fat_pct |-> fat,
     waist_cm |-> waist, hips_cm |-> None, chest_cm |-> None]

ProfileReq(n, e, h) == [name |-> n, email |-> e, height_cm |-> h, goal |-> None]

----------------------------------------------------------------------------
\* Spec: every handler, a store of at most MaxDocs documents.

FullWorkout ==
    [user_email |-> Some("a@x.com"), date |-> Some(Today0), type |-> Some("yoga"),
     duration_min |-> Some(45), intensity |-> Some("High"), notes |-> Some("legs"),
     calories |-> Some(250), exercises |-> Some(<<"squat">>)]

ValidWorkoutBodies ==
    {WorkoutReq(Some(e), Some(d), Some("run"), Some(30), None) :
        e \in Emails, d \in {Today0 - 1, Today0}} \cup {FullWorkout}

InvalidWorkoutBodies ==
    {WorkoutReq(Some("a@x.com"), Some(Today0), Some("run"), Some(0), None),
     WorkoutReq(Some("a@x.com"), Some(Today0), Some("run"), Some(30), Some(-1)),
     WorkoutReq(Some("a@x.com"), Some(Today0), None, Some(30), None)}

ValidBodyBodies ==
    {BodyReq(Some(e), Some(d), Some(80), Some(20), None) :
        e \in Emails, d \in {Today0 - 1, Today0}}

InvalidBodyBodies ==
    {BodyReq(Some("a@x.com"), Some(Today0), Some(80), Some(101), None),
     BodyReq(Some("a@x.com"), Some(Today0), Some(-1), None, None),
     BodyReq(Some("a@x.com"), Some(Today0), Some(80), None, Some(0)),
     BodyReq(None, Some(Today0), Some(80), None, None)}

ValidProfileBodies == {ProfileReq(Some("Ann"), Some(e), Some(170)) : e \in Emails}

InvalidProfileBodies ==
    {ProfileReq(Some("Ann"), Some("a@x.com"), Some(0)),
     ProfileReq(None, Some("a@x.com"), None)}

Timestamps == NowChoices \ {0}

Ranges == {<<None, None>>, <<Some(Today0), Some(Today0)>>}

WorkoutLimits == {1, WorkoutLimitDefault, WorkoutLimitMax + 1}

BodyLimits == {1, BodyLimitDefault, BodyLimitMax + 1}

DayCounts == {DaysDefault}

\* The user whose data is read; the other one owns the records a filter must leave out.
Readers == {"a@x.com"}

Next ==
    \/ \E p \in ValidProfileBodies \cup InvalidProfileBodies, ts \in Timestamps :
          NumDocs < MaxDocs /\ create_profile(p, ts)
    \/ \E e \in Readers : get_profile(e)
    \/ \E w \in ValidWorkoutBodies \cup InvalidWorkoutBodies, ts \in Timestamps :
          NumDocs < MaxDocs /\ add_workout(w, ts)
    \/ \E e \in Readers, r \in Ranges, l \in WorkoutLimits : list_workouts(e, r[1], r[2], l)
    \/ \E m \in ValidBodyBodies \cup InvalidBodyBodies, ts \in Timestamps :
          NumDocs < MaxDocs /\ add_bodycomp(m, ts)
    \/ \E e \in Readers, l \in BodyLimits : list_bodycomp(e, l)
    \/ \E e \in Readers, d \in DayCounts : insights(e, d)
    \/ AdvanceDay

Spec == Init /\ [][Next]_vars

----------------------------------------------------------------------------
\* Properties of the create / list handlers (specification Spec).

IsList(op) == op \in {"list_workouts", "list_bodycomp"}

IsRead(op) == op \in {"get_profile", "list_workouts", "list_bodycomp", "insights"}

IsCreate(op) == op \in {"create_profile", "add_workout", "add_bodycomp"}

\* start <= d <= end, a bound that is not given does not restrict
InRange(d, start, end) ==
    /\ (IsNone(start) \/ Val(start) <= d)
    /\ (IsNone(end) \/ d <= Val(end))

\* The stored documents a list request asks for, as a set.
Wanted(r) ==
    IF r.op = "list_workouts"
    THEN {workouts[i] : i \in {j \in 1..Len(workouts) :
              /\ workouts[j].user_email = r.args.user_email
              /\ InRange(workouts[j].date, r.args.start, r.args.end)}}
    ELSE {bodycomps[i] : i \in {j \in 1..Len(bodycomps) :
              bodycomps[j].user_email = r.args.user_email}}

Returned(r) == {r.docs[i] : i \in 1..Len(r.docs)}

\* A returned record equals the request body in every field but id and
\* creation timestamp.
SameWorkout(rec, w) ==
    /\ rec.user_email = Val(w.user_email)
    /\ rec.date = DateStr(Val(w.date))
    /\ rec.type = Val(w.type)
    /\ rec.duration_min = Val(w.duration_min)
    /\ rec.intensity = w.intensity
    /\ rec.notes = w.notes
    /\ rec.calories = w.calories
    /\ rec.exercises = w.exercises

\* A step from the response of a successful add_workout(w) to the response
\* of a successful list_workouts on w's user and a date range holding w.date.
AddThenList ==
    /\ resp.op = "add_workout" /\ resp.status = 200
    /\ resp'.op = "list_workouts" /\ resp'.status = 200
    /\ resp'.args.user_email = Val(resp.args.user_email)
    /\ InRange(Val(resp.args.date), resp'.args.start, resp'.args.end)

ListHolds == \E i \in 1..Len(resp'.body) : SameWorkout(resp'.body[i], resp.args)

\* C1 as stated: add_workout(w) followed by a list on w's user and a range
\* containing w.date, with any allowed limit, returns a record equal to w.
C1_CreateThenList == [][AddThenList => ListHolds]_vars

\* C1, amended: add_workout(w) followed by such a list returns a record
\* equal to w whenever the store holds at most `limit` records matching the
\* list's filter.
C1_CreateThenListWithinLimit ==
    [][(AddThenList /\ Cardinality(Wanted(resp')) <= resp'.args.limit) => ListHolds]_vars

\* C1 witness: a list of two or more records that holds the document the
\* store received last.
C1_Witness ==
    /\ resp.op = "list_workouts" /\ resp.status = 200
    /\ Len(resp.docs) >= 2
    /\ \E i \in 1..Len(resp.docs) : resp.docs[i]._id = NumDocs

\* C2: a list with limit L returns at most L records, and no matching record
\* that is left out is more recent, by (date, creation timestamp), than a
\* record that is returned.
C2_MostRecentFirst ==
    (IsList(resp.op) /\ resp.status = 200) =>
        /\ Len(resp.docs) <= resp.args.limit
        /\ \A out \in Wanted(resp) \ Returned(resp) :
              \A r \in Returned(resp) : ~KeyLess(r, out)

SortedDesc(docs) == \A i \in 1..(Len(docs) - 1) : ~KeyLess(docs[i], docs[i + 1])

DistinctKeys(docs) ==
    \A i, j \in 1..Len(docs) : i # j => ~KeyEq(docs[i], docs[j])

\* C3 as stated: a list result is sorted descending by (date, creation
\* timestamp), and the ascending sort of the same records is exactly its
\* reverse.
C3_SortedAndReverse ==
    (IsList(resp.op) /\ resp.status = 200) =>
        /\ SortedDesc(resp.docs)
        /\ Reverse(SortAsc(resp.docs)) = resp.docs

\* C3, amended: a list result is sorted descending by (date, creation
\* timestamp); the ascending sort of the same records has the reverse
\* sequence of keys, and is exactly the reverse when no two of the records
\* share a key.
C3_SortedAndReverseKeys ==
    (IsList(resp.op) /\ resp.status = 200) =>
        LET asc == Reverse(SortAsc(resp.docs))
        IN  /\ SortedDesc(resp.docs)
            /\ resp.body = [i \in 1..Len(resp.docs) |->
                              IF resp.op = "list_workouts"
                              THEN SerializeWorkout(resp.docs[i])
                              ELSE SerializeBodyComp(resp.docs[i])]
            /\ \A i \in 1..Len(resp.docs) : KeyEq(asc[i], resp.docs[i])
            /\ (DistinctKeys(resp.docs) => asc = resp.docs)

\* C3 witness: a list of two records with different keys, in the order
\* opposite to their insertion.
C3_Witness ==
    /\ IsList(resp.op) /\ resp.status = 200
    /\ Len(resp.docs) = 2
    /\ KeyLess(resp.docs[2], resp.docs[1])
    /\ resp.docs[1]._id > resp.docs[2]._id

\* What the declared constraints forbid, read off the request.
Violates(r) ==
    CASE r.op = "add_workout" ->
            \/ IsNone(r.args.user_email) \/ IsNone(r.args.date) \/ IsNone(r.args.type)
            \/ IsNone(r.args.duration_min)
            \/ Val(r.args.duration_min) <= 0
            \/ (~IsNone(r.args.calories) /\ Val(r.args.calories) < 0)
      [] r.op = "add_bodycomp" ->
            \/ IsNone(r.args.user_email) \/ IsNone(r.args.date)
            \/ (~IsNone(r.args.weight_kg) /\ Val(r.args.weight_kg) <= 0)
            \/ (~IsNone(r.args.body_fat_pct)
                  /\ (Val(r.args.body_fat_pct) < 0 \/ Val(r.args.body_fat_pct) > 100))
            \/ \E c \in {r.args.waist_cm, r.args.hips_cm, r.args.chest_cm} :
                  ~IsNone(c) /\ Val(c) <= 0
      [] r.op = "create_profile" ->
            \/ IsNone(r.args.name) \/ IsNone(r.args.email)
            \/ (~IsNone(r.args.height_cm) /\ Val(r.args.height_cm) <= 0)
      [] r.op = "list_workouts" -> r.args.limit < 1 \/ r.args.limit > 500
      [] OTHER -> FALSE

C7_Rejected ==
    (IsCreate(resp.op) \/ resp.op = "list_workouts") =>
        (Violates(resp) <=> resp.status = 422)

C7_NoWrite == resp'.status = 422 => store' = store

\* C7: a create request that violates a declared constraint, and a workout
\* list with a limit outside 1..500, is answered with a validation error,
\* and the step that answers with a validation error leaves the store as it
\* was.
C7_ValidationBeforeStore == []C7_Rejected /\ [][C7_NoWrite]_vars

\* C7 witness: a rejected create on a store that holds documents.
C7_Witness ==
    /\ resp.op = "add_workout" /\ resp.status = 422
    /\ ~IsNone(resp.args.duration_min) /\ Val(resp.args.duration_min) = 0
    /\ Len(workouts) >= 1

\* C8: get_profile answers 404 exactly when no stored profile has the
\* email, and otherwise returns one profile with that email; the lists never
\* answer 404 and return the empty sequence when nothing matches.
C8_NotFoundOnlyForProfile ==
    /\ resp.op = "get_profile" =>
          LET hits == {i \in 1..Len(profiles) : profiles[i].email = resp.args.email}
          IN  /\ resp.status = 404 <=> hits = {}
              /\ resp.status # 404 =>
                    /\ resp.status = 200
                    /\ Len(resp.docs) = 1
                    /\ resp.body.email = resp.args.email
                    /\ \E i \in hits : resp.body.id = ToString(profiles[i]._id)
    /\ IsList(resp.op) =>
          /\ resp.status # 404
          /\ (resp.status = 200 /\ Wanted(resp) = {}) => resp.body = <<>>

\* C8 witness: a 404 for an email while the store holds another user's
\* profile.
C8_Witness ==
    /\ resp.op = "get_profile" /\ resp.status = 404
    /\ Len(profiles) >= 1

\* The response the same read request gets in the current state.
Again(r) ==
    CASE r.op = "get_profile" -> GetProfileResponse(r.args.email)
      [] r.op = "list_workouts" ->
            ListWorkoutsResponse(r.args.user_email, r.args.start, r.args.end, r.args.limit)
      [] r.op = "list_bodycomp" -> ListBodycompResponse(r.args.user_email, r.args.limit)
      [] r.op = "insights" -> InsightsResponse(r.args.user_email, r.args.days)

SameOutput(a, b) == a.status = b.status /\ a.body = b.body

ReadLeavesStore == IsRead(resp'.op) => store' = store

\* C9 as stated: as long as no create request follows a read request, the
\* same read request gets the same output again, and no read request
\* changes the store.
C9_ReadsIdempotent ==
    [](IsRead(resp.op) => SameOutput(Again(resp), resp)) /\ [][ReadLeavesStore]_vars

\* C9, amended: the same holds for get_profile, list_workouts and
\* list_bodycomp, and for insights when both calls are made on the same
\* calendar day.
C9_ReadsIdempotentSameDay ==
    /\ []((IsRead(resp.op) /\ (resp.op = "insights" => resp.day = today))
            => SameOutput(Again(resp), resp))
    /\ [][ReadLeavesStore]_vars

\* C9 witness: an insights report of a day that has passed, over a store
\* with a workout.
C9_Witness ==
    /\ resp.op = "insights" /\ resp.status = 200
    /\ resp.day < today
    /\ resp.body.totals.sessions >= 1

----------------------------------------------------------------------------
\* SpecWorkout: the workout log and its insights, a store of at most
\* MaxWorkouts workouts, each stamped later than the one before.

WorkoutKinds ==
    {[type |-> "run", duration_min |-> 20], [type |-> "", duration_min |-> 45]}

StreakWorkoutBodies ==
    {WorkoutReq(Some(e), Some(d), Some(k.type), Some(k.duration_min), None) :
        e \in Emails, d \in (Today0 - 2)..Today0, k \in WorkoutKinds}

StreakDayCounts == {1, 2, 3, DaysDefault}

NextWorkout ==
    \/ \E w \in StreakWorkoutBodies :
          Len(workouts) < MaxWorkouts /\ add_workout(w, LastTs + 1)
    \/ \E e \in Readers, d \in StreakDayCounts : insights(e, d)
    \/ AdvanceDay

SpecWorkout == Init /\ [][NextWorkout]_vars

\* The user has a workout dated d.
WorkedOn(e, d) ==
    \E i \in 1..Len(workouts) : workouts[i].user_email = e /\ workouts[i].date = d

\* The days d, d-1, ..., d-(k-1) all have a workout of the user.
Run(e, d, k) == \A j \in 0..(k - 1) : WorkedOn(e, d - j)

IsInsights == resp.op = "insights" /\ resp.status = 200

\* C4 as stated: streak_days is the largest k such that the user has a
\* workout on each of today, today-1, ..., today-(k-1); it is 0 without a
\* workout today and 3 for workouts on exactly today, today-1, today-2.
C4_Streak ==
    IsInsights =>
        LET e == resp.args.user_email
            k == resp.body.totals.streak_days
        IN  /\ Run(e, resp.day, k)
            /\ ~WorkedOn(e, resp.day - k)
            /\ (~WorkedOn(e, resp.day) => k = 0)
            /\ (Run(e, resp.day, 3) /\ ~WorkedOn(e, resp.day - 3) => k = 3)

\* C4, amended: streak_days is the largest k <= days with that property (the
\* streak is counted inside the window of `days` days); it is 0 without a
\* workout today, and 3 for workouts on exactly today, today-1, today-2 when
\* days >= 3.
C4_StreakWithinWindow ==
    IsInsights =>
        LET e == resp.args.user_email
            k == resp.body.totals.streak_days
        IN  /\ k >= 0 /\ k <= resp.args.days
            /\ Run(e, resp.day, k)
            /\ (k < resp.args.days => ~WorkedOn(e, resp.day - k))
            /\ (~WorkedOn(e, resp.day) => k = 0)
            /\ (Run(e, resp.day, 3) /\ ~WorkedOn(e, resp.day - 3) /\ resp.args.days >= 3
                  => k = 3)

\* C4 witness: a report with streak_days = 3 over workouts on today,
\* today-1 and today-2.
C4_Witness ==
    /\ IsInsights
    /\ resp.body.totals.streak_days = 3
    /\ Run(resp.args.user_email, resp.day, 3)
    /\ ~WorkedOn(resp.args.user_email, resp.day - 3)

\* The positions of the user's workouts inside the window of the report.
InWindow(r) ==
    {i \in 1..Len(workouts) :
        /\ workouts[i].user_email = r.args.user_email
        /\ r.day - (r.args.days - 1) <= workouts[i].date
        /\ workouts[i].date <= r.day}

\* C10: totals.sessions counts the user's workouts dated within
\* [today-(days-1), today], totals.minutes is the sum of their durations,
\* the values of volume_by_day sum to totals.minutes and the counts of types
\* sum to totals.sessions.
C10_Totals ==
    IsInsights =>
        LET b == resp.body
            W == InWindow(resp)
        IN  /\ b.totals.sessions = Cardinality(W)
            /\ b.totals.minutes = SumOver([i \in W |-> workouts[i].duration_min], W)
            /\ SumOver(b.volume_by_day, DOMAIN b.volume_by_day) = b.totals.minutes
            /\ SumOver(b.types, DOMAIN b.types) = b.totals.sessions

\* C10 witness: a report over two workouts of different days and types,
\* with a workout of the user before the window left out.
C10_Witness ==
    /\ IsInsights
    /\ resp.body.totals.sessions = 2
    /\ Cardinality(DOMAIN resp.body.volume_by_day) = 2
    /\ Cardinality(DOMAIN resp.body.types) = 2
    /\ \E i \in 1..Len(workouts) :
          /\ workouts[i].user_email = resp.args.user_email
          /\ workouts[i].date = resp.day - resp.args.days

----------------------------------------------------------------------------
\* SpecBody: the body-composition history and the weight change of the
\* report, a store of at most MaxBody entries.

Weights == {None, Some(78), Some(80)}

TrendBodies ==
    {BodyReq(Some("a@x.com"), Some(d), w, None, None) :
        d \in (Today0 - 2)..Today0, w \in Weights}
    \cup {BodyReq(Some("b@x.com"), Some(Today0), Some(80), None, None)}

NextBody ==
    \/ \E m \in TrendBodies, ts \in Timestamps :
          Len(bodycomps) < MaxBody /\ add_bodycomp(m, ts)
    \/ \E e \in Readers, l \in {BodyLimitDefault} : list_bodycomp(e, l)
    \/ \E e \in Readers, d \in {DaysDefault} : insights(e, d)

SpecBody == Init /\ [][NextBody]_vars

\* The positions of the user's entries, and of those with a weight.
History(e) == {i \in 1..Len(bodycomps) : bodycomps[i].user_email = e}

Weighed(e) == {i \in History(e) : ~IsNone(bodycomps[i].weight_kg)}

\* Entry i comes before entry j: by (date, creation timestamp), entries with
\* the same key in the order of their insertion.
Before(i, j) ==
    \/ KeyLess(bodycomps[i], bodycomps[j])
    \/ (KeyEq(bodycomps[i], bodycomps[j]) /\ i <= j)

\* C5: with at least two entries in the user's history and at least one
\* entry with a weight, weight_change is the weight of the chronologically
\* last entry with a weight minus that of the first one (0 when it is the
\* same entry); otherwise it is null.
C5_WeightChange ==
    IsInsights =>
        LET e == resp.args.user_email
            wc == resp.body.weight_change
        IN  IF Cardinality(History(e)) >= 2 /\ Weighed(e) # {}
            THEN LET first == CHOOSE i \in Weighed(e) : \A j \in Weighed(e) : Before(i, j)
                     last == CHOOSE i \in Weighed(e) : \A j \in Weighed(e) : Before(j, i)
                 IN  /\ wc = Some(Val(bodycomps[last].weight_kg)
                                    - Val(bodycomps[first].weight_kg))
                     /\ (Cardinality(Weighed(e)) = 1 => wc = Some(0))
            ELSE wc = None

\* C5 witness: D1 (80), D2 (78), D3 (no weight) and weight_change = -2.
C5_Witness ==
    /\ IsInsights
    /\ resp.body.weight_change = Some(-2)
    /\ \E i, j, k \in History(resp.args.user_email) :
          /\ bodycomps[i].date < bodycomps[j].date
          /\ bodycomps[j].date < bodycomps[k].date
          /\ bodycomps[i].weight_kg = Some(80)
          /\ bodycomps[j].weight_kg = Some(78)
          /\ bodycomps[k].weight_kg = None

----------------------------------------------------------------------------
\* SpecFreq: one user's workouts, up to MaxFreqWorkouts of them, inside and
\* outside the shorter windows.

FreqWorkoutBodies ==
    {WorkoutReq(Some("a@x.com"), Some(d), Some("run"), Some(30), None) :
        d \in {Today0 - 20, Today0}}

FreqDayCounts == {1, 16, DaysDefault}

NextFreq ==
    \/ \E w \in FreqWorkoutBodies :
          Len(workouts) < MaxFreqWorkouts /\ add_workout(w, LastTs + 1)
    \/ \E e \in Readers, d \in FreqDayCounts : insights(e, d)

SpecFreq == Init /\ [][NextFreq]_vars

HasFrequencySuggestion(r) ==
    \E i \in 1..Len(r.body.suggestions) : r.body.suggestions[i] = FrequencySuggestion

\* C6: the frequency suggestion is in the list exactly when
\* total_sessions < max(3, days div 4), and then it is the first element;
\* for days = 30 it is present with 5 sessions and absent with 8.
C6_FrequencySuggestion ==
    IsInsights =>
        LET n == resp.body.totals.sessions
            q == resp.args.days \div 4
            threshold == IF q > 3 THEN q ELSE 3
        IN  /\ HasFrequencySuggestion(resp) <=> n < threshold
            /\ HasFrequencySuggestion(resp) => resp.body.suggestions[1] = FrequencySuggestion
            /\ (resp.args.days = 30 /\ n = 5) => HasFrequencySuggestion(resp)
            /\ (resp.args.days = 30 /\ n = 8) => ~HasFrequencySuggestion(resp)

\* C6 witness: days = 30, 8 sessions, no frequency suggestion.
C6_Witness ==
    /\ IsInsights
    /\ resp.args.days = 30
    /\ resp.body.totals.sessions = 8
    /\ ~HasFrequencySuggestion(resp)

=============================================================================
